---- MODULE Spec2Model ----
(***************************************************************************)
(* State machine of the map dashboards of hd-mobile that talk to the       *)
(* report API:                                                             *)
(*   "police"  : PoliceViewScreen   (src/unnamed/part_003)                 *)
(*   "citizen" : CitizenWatchScreen (src/hd-drunk/app/(tabs)/index.tsx,    *)
(*               second component of the file, line 877 on)               *)
(* One screen instance is modelled from its first commit (state after the  *)
(* mount effects have started their asynchronous functions) to after its   *)
(* unmount.  Every asynchronous function is cut at its awaits; a handler   *)
(* (or the part of it between two awaits) is one atomic action, as the     *)
(* event loop runs it.  A setState call is a write of the state variable.  *)
(* Values captured by a closure when a handler starts (the `reports` of    *)
(* the render the handler was created in) are kept with the pending        *)
(* handler.                                                                *)
(*                                                                         *)
(* Coordinates are integers in 1e-5 degree.  A coordinate of a report is a *)
(* record [base, spread]: some value in [base - spread, base + spread),    *)
(* which is how `x + (Math.random() - 0.5) * w` is represented             *)
(* (spread = w / 2).                                                       *)
(***************************************************************************)
EXTENDS Integers, Sequences, FiniteSets, TLC

VARIABLES
    variant,             \* which screen component this instance is
    mounted,             \* FALSE once the effect cleanup has run
    region,              \* useState<Region>
    userLocation,        \* useState({latitude, longitude})
    isLoading,           \* useState(true)
    errorMsg,            \* useState<string | null>
    reports,             \* useState<Report[]>
    isLoadingReports,    \* useState(false)
    modalVisible,        \* useState(false)
    reportType,          \* useState('Impaired Driving')
    reportDescription,   \* useState('')
    selectedReport,      \* useState<Report | null>   (police)
    markerPressed,       \* useState(false)           (police)
    alert,               \* title of the Alert.alert dialog on screen
    fetchPc,             \* position of the running fetchReports call
    getLocPc,            \* position of getLocation
    locationTimeout,     \* the `let locationTimeout` of the effect
    watchPc,             \* position of startLocationUpdates
    locationSubscription,\* the `let locationSubscription` of the effect
    subActive,           \* the native position watch is delivering updates
    submits,             \* handleReportSubmit calls awaiting their POST
    confirms,            \* confirm handlers awaiting their PUT
    deleteDialog,        \* the "Delete Incident" dialog and its closure
    deletes,             \* delete handlers awaiting their DELETE
    serverReports,       \* the report list held by the remote API
    now,                 \* Date.now()
    nSubmits,            \* submit presses so far
    nRefresh,            \* refresh presses so far
    nConfirms,           \* confirm presses so far
    nDeletes,            \* delete confirmations so far
    goTos,               \* goToMyLocation calls awaiting their Promise.race
    nGoTo,               \* presses of the my-location button so far
    lateWrites,          \* callbacks that wrote state after the unmount
    name,                \* register: useState('')
    email,               \* login, register: useState(''), a sequence of characters
    password,            \* login, register: useState('')
    role,                \* register: useState<UserRole | null>(null)
    authCalls,           \* handleLogin / handleRegister calls at an await
    route,               \* the route the router shows
    storedUser,          \* AsyncStorage item 'user'
    nAuth                \* presses of the login or register button so far

vars == << variant, mounted, region, userLocation, isLoading, errorMsg,
           reports, isLoadingReports, modalVisible, reportType,
           reportDescription, selectedReport, markerPressed, alert, fetchPc,
           getLocPc, locationTimeout, watchPc, locationSubscription,
           subActive, submits, confirms, deleteDialog, deletes,
           serverReports, now, nSubmits, nRefresh, nConfirms, nDeletes,
           goTos, nGoTo, lateWrites, name, email, password, role,
           authCalls, route, storedUser, nAuth >>

formVars == << modalVisible, reportType, reportDescription >>
selVars == << selectedReport, markerPressed >>
locVars == << getLocPc, locationTimeout >>
watchVars == << watchPc, locationSubscription, subActive >>
pendingVars == << submits, confirms, deleteDialog, deletes, goTos >>
envVars == << serverReports, now >>
counters == << nSubmits, nRefresh, nConfirms, nDeletes, nGoTo >>
authVars == << name, email, password, role, authCalls, route, storedUser,
              nAuth >>

----------------------------------------------------------------------------
(* Bounds of the exploration *)

MaxSubmits == 1
MaxRefresh == 1
MaxConfirms == 1
MaxDeletes == 1
MaxGoTo == 1
MaxNow == 11

----------------------------------------------------------------------------
(* Constants of the program *)

Variants == {"police", "citizen"}

DEFAULT_LOCATION ==
    [latitude |-> 3778825, longitude |-> -12243240,
     latitudeDelta |-> 2220, longitudeDelta |-> 1210]

Exact(x) == [base |-> x, spread |-> 0]
Around(x, halfWidth) == [base |-> x, spread |-> halfWidth]

Rep(id, lat, lon, prob, descr, conf) ==
    [report_id |-> id, latitude |-> Exact(lat), longitude |-> Exact(lon),
     probability |-> prob, descriptor |-> descr, confirm_bool |-> conf]

SAMPLE_REPORTS_police ==
    << Rep(1, 3778825, -12243240, 70,
           "Vehicle swerving between lanes on highway", "impaired"),
       Rep(2, 3779125, -12243540, 55,
           "Driver exhibiting erratic behavior at intersection", "impaired"),
       Rep(3, 3778525, -12242940, 70,
           "Vehicle swerving between lanes on highway", "impaired"),
       Rep(4, 3779125, -12243540, 55,
           "Driver exhibiting erratic behavior at intersection", "impaired") >>

SAMPLE_REPORTS_citizen ==
    << Rep(1, 3778825, -12243240, 65,
           "Car weaving through traffic on Highway 101", "null"),
       Rep(2, 3779125, -12243540, 55,
           "Suspected impaired driver at stoplight", "null"),
       Rep(3, 3778525, -12242940, 70,
           "Vehicle swerving on Main Street", "null"),
       Rep(4, 3778675, -12243190, 60,
           "Erratic driving near the park", "null"),
       Rep(5, 3778925, -12243440, 40,
           "Driver ran a red light", "null") >>

\* the probability fields of the SAMPLE_REPORTS of the screen that has the
\* mock-location control
SAMPLE_REPORTS_mock_probability == << 70, 55, 45, 65, 30 >>

SAMPLE_REPORTS ==
    IF variant = "police" THEN SAMPLE_REPORTS_police
                          ELSE SAMPLE_REPORTS_citizen

----------------------------------------------------------------------------
(* Inputs *)

\* what the text field can hold after the user typed
Descriptions == {"swerving near 5th Ave", "ran a red light"}

\* device positions a fix or a watch update can report
Fixes == { [latitude |-> 3400000, longitude |-> -11800000] }

\* Math.random() returns k / RandomDenominator, 0 <= k < RandomDenominator
RandomDenominator == 100
RandomDraws == {0, 99}

\* `probability?: number`: the field is absent
Undefined == -1

\* the probabilities a report of the API can carry
MaxProbability == 100
Probabilities == 0..MaxProbability

\* the thresholds of getMarkerColor, and the values at and just below them
Thresholds == {40, 50, 65}
ThresholdProbabilities == Thresholds \cup { b - 1 : b \in Thresholds }

\* what the API holds when the screen mounts
ServerReports ==
    << Rep(7, 3778000, -12243000, 45, "reported by another user", "null"),
       Rep(8, 3779000, -12244000, 20, "reported by a camera", "null") >>

\* regions the user can pan or zoom the map to
PanRegions ==
    { [latitude |-> 3780000, longitude |-> -12240000,
       latitudeDelta |-> 1000, longitudeDelta |-> 1000] }

\* how a POST, PUT or DELETE can end: a 2xx response, a response with an
\* error status (fetch resolves), or a network error (fetch rejects)
Outcomes == {"ok", "non2xx", "throw"}

\* a nullable value is a sequence of length 0 or 1
Null == << >>
Some(x) == << x >>

\* a map screen is shown: no login or register form is on screen, no
\* handler of theirs is pending
NoAuth ==
    /\ name = ""
    /\ email = << >>
    /\ password = ""
    /\ role = "null"
    /\ authCalls = << >>
    /\ route = "/(tabs)"
    /\ storedUser = << >>
    /\ nAuth = 0

----------------------------------------------------------------------------
(* The state after the first commit: the useState initial values, with the *)
(* two mount effects run up to their first awaits (fetchReports has set    *)
(* isLoadingReports and awaits its GET, getLocation awaits the permission, *)
(* startLocationUpdates awaits watchPositionAsync).  The clock starts      *)
(* above every report_id of the sample sets.                               *)
InitScreen ==
    /\ mounted = TRUE
    /\ region = DEFAULT_LOCATION
    /\ userLocation = [latitude |-> DEFAULT_LOCATION.latitude,
                       longitude |-> DEFAULT_LOCATION.longitude]
    /\ isLoading = TRUE
    /\ errorMsg = "null"
    /\ reports = << >>
    /\ isLoadingReports = TRUE
    /\ modalVisible = FALSE
    /\ reportType = "Impaired Driving"
    /\ reportDescription = ""
    /\ selectedReport = Null
    /\ markerPressed = FALSE
    /\ alert = "none"
    /\ fetchPc = "awaitFetch"
    /\ getLocPc = "awaitPermission"
    /\ locationTimeout = "undefined"
    /\ watchPc = "awaitWatch"
    /\ locationSubscription = "undefined"
    /\ subActive = FALSE
    /\ submits = << >>
    /\ confirms = << >>
    /\ deleteDialog = Null
    /\ deletes = << >>
    /\ now = 10
    /\ nSubmits = 0
    /\ nRefresh = 0
    /\ nConfirms = 0
    /\ nDeletes = 0
    /\ goTos = 0
    /\ nGoTo = 0
    /\ lateWrites = {}
    /\ NoAuth

\* either API screen mounts while the API holds ServerReports, whose ids
\* are below the clock
Init ==
    /\ variant \in Variants
    /\ serverReports = ServerReports
    /\ InitScreen

\* The screen mounts while the API holds, besides ServerReports, a report
\* another device has posted: its report_id is that device's Date.now()
\* (the POST body carries the client's report_id), a millisecond this
\* screen's clock is yet to show
InitIds ==
    /\ variant \in Variants
    /\ serverReports \in
          { Append(ServerReports,
                   Rep(id, 3778500, -12243500, 50,
                       "reported from another device", "null")) :
             id \in 10..MaxNow }
    /\ InitScreen

\* PoliceViewScreen mounts while the API holds two reports: one with any
\* probability or none, unconfirmed or confirmed, and an unconfirmed one
\* with a probability at or just below a threshold of getMarkerColor
InitMarkers ==
    /\ variant = "police"
    /\ serverReports \in
          { << Rep(7, 3778000, -12243000, p1, "reported by another user", c1),
               Rep(8, 3779000, -12244000, p2, "reported by a camera", "null") >> :
             p1 \in Probabilities \cup {Undefined},
             c1 \in {"null", "safe"},
             p2 \in ThresholdProbabilities }
    /\ InitScreen

\* lateWrites after a callback that calls a state setter: the callback is
\* recorded when the cleanup has already run
Late(callback) ==
    IF mounted THEN lateWrites ELSE lateWrites \cup {callback}

----------------------------------------------------------------------------
(* fetchReports *)

\* `await fetch(url)` settles: the request failed, or a response arrived
\* whose `ok` is false, or an ok response arrived
fetchReports_response(outcome) ==
    /\ fetchPc = "awaitFetch"
    /\ IF outcome = "ok"
       THEN /\ fetchPc' = "awaitJson"
            /\ UNCHANGED << reports, alert, isLoadingReports, lateWrites >>
       ELSE \* throw -> catch -> finally
            /\ alert' = "Data Loading Error"
            /\ reports' = SAMPLE_REPORTS
            /\ isLoadingReports' = FALSE
            /\ fetchPc' = "idle"
            /\ lateWrites' = Late("fetchReports")
    /\ UNCHANGED << variant, authVars, mounted, region, userLocation, isLoading,
                    errorMsg, formVars, selVars, locVars, watchVars,
                    pendingVars, envVars, counters >>

\* what `await response.json()` can produce: a parse error, or a body with a
\* `status` and a `reports` field that is the API's list or not an array
Bodies ==
    { [parsed |-> FALSE, status |-> "none",    reports |-> Null],
      [parsed |-> TRUE,  status |-> "success", reports |-> Some(serverReports)],
      [parsed |-> TRUE,  status |-> "error",   reports |-> Some(serverReports)],
      [parsed |-> TRUE,  status |-> "success", reports |-> Null] }

\* Array.isArray(data.reports)
IsArray(x) == x # Null

\* fetchedReports without the test of data.status
fetchedReports_ignoresStatus(data) ==
    IF IsArray(data.reports) THEN data.reports[1] ELSE SAMPLE_REPORTS

\* fetchedReports that reconciles with the list on screen: of the API's
\* reports it keeps those the screen still shows
fetchedReports_reconciled(data) ==
    IF data.status = "success" /\ IsArray(data.reports)
    THEN IF reports = << >>
         THEN data.reports[1]
         ELSE SelectSeq(data.reports[1],
                 LAMBDA r : \E j \in 1..Len(reports) :
                               reports[j].report_id = r.report_id)
    ELSE SAMPLE_REPORTS

\* the list the try block passes to setReports for a parsed body
fetchedReports(data) ==
    IF data.status = "success" /\ IsArray(data.reports)
    THEN data.reports[1]
    ELSE SAMPLE_REPORTS

\* `await response.json()` settles: it throws, or yields a body
fetchReports_json(body) ==
    /\ fetchPc = "awaitJson"
    /\ IF ~body.parsed
       THEN /\ alert' = "Data Loading Error"
            /\ reports' = SAMPLE_REPORTS
       ELSE /\ reports' = fetchedReports(body)
            /\ UNCHANGED alert
    /\ isLoadingReports' = FALSE
    /\ fetchPc' = "idle"
    /\ lateWrites' = Late("fetchReports")
    /\ UNCHANGED << variant, authVars, mounted, region, userLocation, isLoading,
                    errorMsg, formVars, selVars, locVars, watchVars,
                    pendingVars, envVars, counters >>

----------------------------------------------------------------------------
(* The location effect: getLocation and its 5 second timer *)

\* SAMPLE_REPORTS.map(report => ({...report,
\*     latitude: c.latitude + (Math.random() - 0.5) * 0.02, longitude: ...}))
localizedReports(c) ==
    [i \in 1..Len(SAMPLE_REPORTS) |->
        [SAMPLE_REPORTS[i] EXCEPT !.latitude = Around(c.latitude, 1000),
                                  !.longitude = Around(c.longitude, 1000)]]

\* clearTimeout(locationTimeout)
clearTimeout(t) == IF t = "pending" THEN "cleared" ELSE t

\* getLocation_permission whose denied branch does not return: it goes on
\* to schedule the timer and to ask for the position
getLocation_permission_noReturn(status) ==
    /\ getLocPc = "awaitPermission"
    /\ IF status = "throw"
       THEN /\ isLoading' = FALSE
            /\ getLocPc' = "done"
            /\ UNCHANGED << errorMsg, locationTimeout >>
       ELSE /\ errorMsg' = IF status # "granted"
                           THEN "Permission to access location was denied"
                           ELSE errorMsg
            /\ isLoading' = (status = "granted" /\ isLoading)
            /\ locationTimeout' = "pending"
            /\ getLocPc' = "awaitPosition"
    /\ lateWrites' = IF status = "granted" THEN lateWrites
                                           ELSE Late("getLocation")
    /\ UNCHANGED << variant, authVars, mounted, region, userLocation, reports,
                    isLoadingReports, formVars, selVars, alert, fetchPc,
                    watchVars, pendingVars, envVars, counters >>

\* `await Location.requestForegroundPermissionsAsync()` settles
getLocation_permission(status) ==
    /\ getLocPc = "awaitPermission"
    /\ IF status = "throw"
       THEN /\ isLoading' = FALSE
            /\ getLocPc' = "done"
            /\ UNCHANGED << errorMsg, locationTimeout >>
       ELSE IF status # "granted"
       THEN /\ errorMsg' = "Permission to access location was denied"
            /\ isLoading' = FALSE
            /\ getLocPc' = "done"
            /\ UNCHANGED locationTimeout
       ELSE \* setTimeout(..., 5000), then getCurrentPositionAsync is called
            /\ locationTimeout' = "pending"
            /\ getLocPc' = "awaitPosition"
            /\ UNCHANGED << errorMsg, isLoading >>
    /\ lateWrites' = IF status = "granted" THEN lateWrites
                                           ELSE Late("getLocation")
    /\ UNCHANGED << variant, authVars, mounted, region, userLocation, reports,
                    isLoadingReports, formVars, selVars, alert, fetchPc,
                    watchVars, pendingVars, envVars, counters >>

\* timeoutRegion with the deltas goToMyLocation uses
timeoutRegion_zoomed ==
    [DEFAULT_LOCATION EXCEPT !.latitudeDelta = 1000, !.longitudeDelta = 1000]

\* the region the timer callback passes to setRegion
timeoutRegion == DEFAULT_LOCATION

\* locationTimeout_fires without setIsLoading(false)
locationTimeout_fires_keepsLoading ==
    /\ locationTimeout = "pending"
    /\ locationTimeout' = "fired"
    /\ region' = timeoutRegion
    /\ userLocation' = [latitude |-> DEFAULT_LOCATION.latitude,
                        longitude |-> DEFAULT_LOCATION.longitude]
    /\ IF variant = "police"
       THEN /\ reports' = localizedReports(DEFAULT_LOCATION)
            /\ alert' = "Using Default Location"
       ELSE UNCHANGED << reports, alert >>
    /\ lateWrites' = Late("locationTimeout")
    /\ UNCHANGED << variant, authVars, mounted, isLoading, errorMsg, isLoadingReports,
                    formVars, selVars, fetchPc, getLocPc, watchVars,
                    pendingVars, envVars, counters >>

\* the callback given to setTimeout runs, 5000 ms after it was scheduled
locationTimeout_fires ==
    /\ locationTimeout = "pending"
    /\ locationTimeout' = "fired"
    /\ region' = timeoutRegion
    /\ userLocation' = [latitude |-> DEFAULT_LOCATION.latitude,
                        longitude |-> DEFAULT_LOCATION.longitude]
    /\ IF variant = "police"
       THEN /\ reports' = localizedReports(DEFAULT_LOCATION)
            /\ alert' = "Using Default Location"
       ELSE UNCHANGED << reports, alert >>
    /\ isLoading' = FALSE
    /\ lateWrites' = Late("locationTimeout")
    /\ UNCHANGED << variant, authVars, mounted, errorMsg, isLoadingReports, formVars,
                    selVars, fetchPc, getLocPc, watchVars, pendingVars,
                    envVars, counters >>

\* `await Location.getCurrentPositionAsync(...)` resolves with a fix
getLocation_position(location) ==
    /\ getLocPc = "awaitPosition"
    /\ locationTimeout' = clearTimeout(locationTimeout)
    /\ region' = [latitude |-> location.latitude,
                  longitude |-> location.longitude,
                  latitudeDelta |-> 2220, longitudeDelta |-> 1210]
    /\ userLocation' = [latitude |-> location.latitude,
                        longitude |-> location.longitude]
    /\ IF variant = "police"
       THEN reports' = localizedReports(location)
       ELSE UNCHANGED reports
    /\ isLoading' = FALSE
    /\ getLocPc' = "done"
    /\ lateWrites' = Late("getLocation")
    /\ UNCHANGED << variant, authVars, mounted, errorMsg, isLoadingReports, formVars,
                    selVars, alert, fetchPc, watchVars, pendingVars, envVars,
                    counters >>

\* `await Location.getCurrentPositionAsync(...)` rejects
getLocation_positionError ==
    /\ getLocPc = "awaitPosition"
    /\ errorMsg' = "Could not get your location. Using default location."
    /\ locationTimeout' = clearTimeout(locationTimeout)
    /\ isLoading' = FALSE
    /\ getLocPc' = "done"
    /\ lateWrites' = Late("getLocation")
    /\ UNCHANGED << variant, authVars, mounted, region, userLocation, reports,
                    isLoadingReports, formVars, selVars, alert, fetchPc,
                    watchVars, pendingVars, envVars, counters >>

----------------------------------------------------------------------------
(* The location effect: startLocationUpdates and the cleanup *)

\* `await Location.watchPositionAsync(...)` resolves with a subscription
startLocationUpdates_resolved ==
    /\ watchPc = "awaitWatch"
    /\ locationSubscription' = "subscription"
    /\ subActive' = TRUE
    /\ watchPc' = "done"
    /\ UNCHANGED << variant, authVars, mounted, region, userLocation, isLoading,
                    errorMsg, reports, isLoadingReports, formVars, selVars,
                    alert, fetchPc, locVars, pendingVars, envVars, counters,
                    lateWrites >>

\* `await Location.watchPositionAsync(...)` rejects
startLocationUpdates_rejected ==
    /\ watchPc = "awaitWatch"
    /\ watchPc' = "done"
    /\ UNCHANGED << variant, authVars, mounted, region, userLocation, isLoading,
                    errorMsg, reports, isLoadingReports, formVars, selVars,
                    alert, fetchPc, locVars, locationSubscription, subActive,
                    pendingVars, envVars, counters, lateWrites >>

\* watchPosition_update that also centres the map on the position
watchPosition_update_recenters(location) ==
    /\ subActive
    /\ userLocation' = [latitude |-> location.latitude,
                        longitude |-> location.longitude]
    /\ region' = [region EXCEPT !.latitude = location.latitude,
                                !.longitude = location.longitude]
    /\ lateWrites' = Late("watchPosition")
    /\ UNCHANGED << variant, authVars, mounted, isLoading, errorMsg, reports,
                    isLoadingReports, formVars, selVars, alert, fetchPc,
                    locVars, watchVars, pendingVars, envVars, counters >>

\* the callback given to watchPositionAsync is called with a position
watchPosition_update(location) ==
    /\ subActive
    /\ userLocation' = [latitude |-> location.latitude,
                        longitude |-> location.longitude]
    /\ lateWrites' = Late("watchPosition")
    /\ UNCHANGED << variant, authVars, mounted, region, isLoading, errorMsg, reports,
                    isLoadingReports, formVars, selVars, alert, fetchPc,
                    locVars, watchVars, pendingVars, envVars, counters >>

\* cleanup that also aborts the report fetch in flight
cleanup_cancelsFetch ==
    /\ mounted
    /\ mounted' = FALSE
    /\ locationTimeout' = clearTimeout(locationTimeout)
    /\ subActive' = IF locationSubscription # "undefined" THEN FALSE
                                                         ELSE subActive
    /\ fetchPc' = "idle"
    /\ UNCHANGED << variant, authVars, region, userLocation, isLoading, errorMsg,
                    reports, isLoadingReports, formVars, selVars, alert,
                    getLocPc, watchPc, locationSubscription, pendingVars,
                    envVars, counters, lateWrites >>

\* the function returned by the effect: the screen unmounts
cleanup ==
    /\ mounted
    /\ mounted' = FALSE
    /\ locationTimeout' = clearTimeout(locationTimeout)
    /\ subActive' = IF locationSubscription # "undefined" THEN FALSE
                                                         ELSE subActive
    /\ UNCHANGED << variant, authVars, region, userLocation, isLoading, errorMsg,
                    reports, isLoadingReports, formVars, selVars, alert,
                    fetchPc, getLocPc, watchPc, locationSubscription,
                    pendingVars, envVars, counters, lateWrites >>

----------------------------------------------------------------------------
(* Sequences *)

RECURSIVE Filter(_, _)
\* xs.filter(r => r.report_id !== id)
Filter(xs, id) ==
    IF xs = << >> THEN << >>
    ELSE IF Head(xs).report_id # id
         THEN << Head(xs) >> \o Filter(Tail(xs), id)
         ELSE Filter(Tail(xs), id)

\* xs without its i-th element
Remove(xs, i) == SubSeq(xs, 1, i - 1) \o SubSeq(xs, i + 1, Len(xs))

----------------------------------------------------------------------------
(* The user interface.  While isLoading the component returns the spinner  *)
(* alone, so no control is on screen; an Alert dialog is modal.            *)

controlsShown == mounted /\ ~isLoading /\ alert = "none" /\ deleteDialog = Null

\* the only button of a plain Alert.alert(title, message)
alert_dismiss ==
    /\ alert # "none"
    /\ alert' = "none"
    /\ UNCHANGED << variant, authVars, mounted, region, userLocation, isLoading,
                    errorMsg, reports, isLoadingReports, formVars, selVars,
                    fetchPc, locVars, watchVars, pendingVars, envVars,
                    counters, lateWrites >>

\* onRegionChangeComplete={setRegion}
onRegionChangeComplete(r) ==
    /\ controlsShown
    /\ region' = r
    /\ UNCHANGED << variant, authVars, mounted, userLocation, isLoading, errorMsg,
                    reports, isLoadingReports, formVars, selVars, alert,
                    fetchPc, locVars, watchVars, pendingVars, envVars,
                    counters, lateWrites >>

\* refreshReports of a refresh button without the disabled prop
refreshReports_alwaysEnabled ==
    /\ controlsShown
    /\ nRefresh < MaxRefresh
    /\ nRefresh' = nRefresh + 1
    /\ isLoadingReports' = TRUE
    /\ fetchPc' = "awaitFetch"
    /\ UNCHANGED << variant, authVars, mounted, region, userLocation, isLoading,
                    errorMsg, reports, formVars, selVars, alert, locVars,
                    watchVars, pendingVars, envVars, nSubmits, nConfirms,
                    nDeletes, nGoTo, lateWrites >>

\* refresh button: onPress={refreshReports} disabled={isLoadingReports};
\* runs fetchReports up to its first await
refreshReports ==
    /\ controlsShown
    /\ ~isLoadingReports
    /\ nRefresh < MaxRefresh
    /\ nRefresh' = nRefresh + 1
    /\ isLoadingReports' = TRUE
    /\ fetchPc' = "awaitFetch"
    /\ UNCHANGED << variant, authVars, mounted, region, userLocation, isLoading,
                    errorMsg, reports, formVars, selVars, alert, locVars,
                    watchVars, pendingVars, envVars, nSubmits, nConfirms,
                    nDeletes, nGoTo, lateWrites >>

\* onPress={() => setModalVisible(true)} / {() => setModalVisible(false)}
setModalVisible(v) ==
    /\ controlsShown
    /\ modalVisible # v
    /\ modalVisible' = v
    /\ UNCHANGED << variant, authVars, mounted, region, userLocation, isLoading,
                    errorMsg, reports, isLoadingReports, reportType,
                    reportDescription, selVars, alert, fetchPc, locVars,
                    watchVars, pendingVars, envVars, counters, lateWrites >>

\* onChangeText={setReportDescription}
setReportDescription(d) ==
    /\ controlsShown
    /\ modalVisible
    /\ reportDescription # d
    /\ reportDescription' = d
    /\ UNCHANGED << variant, authVars, mounted, region, userLocation, isLoading,
                    errorMsg, reports, isLoadingReports, modalVisible,
                    reportType, selVars, alert, fetchPc, locVars, watchVars,
                    pendingVars, envVars, counters, lateWrites >>

----------------------------------------------------------------------------
(* goToMyLocation *)

\* the my-location button is pressed: the handler calls setIsLoading(true)
\* and getCurrentPositionAsync, starts its own 5000 ms timer and runs up to
\* `await Promise.race([locationPromise, timeoutPromise])`
goToMyLocation ==
    /\ controlsShown
    /\ nGoTo < MaxGoTo
    /\ nGoTo' = nGoTo + 1
    /\ isLoading' = TRUE
    /\ goTos' = goTos + 1
    /\ UNCHANGED << variant, authVars, mounted, region, userLocation, errorMsg, reports,
                    isLoadingReports, formVars, selVars, alert, fetchPc,
                    locVars, watchVars, submits, confirms, deleteDialog,
                    deletes, envVars, nSubmits, nRefresh, nConfirms, nDeletes,
                    lateWrites >>

\* the race of a pending call is won by the position.  While isLoading is
\* true the component renders the spinner alone, the MapView is not mounted
\* and mapRef.current is null, so `mapRef.current?.animateToRegion` does
\* nothing; on a mounted map the animation ends in onRegionChangeComplete
\* with the new region.
goToMyLocation_resolved(location) ==
    /\ goTos > 0
    /\ goTos' = goTos - 1
    /\ userLocation' = [latitude |-> location.latitude,
                        longitude |-> location.longitude]
    /\ region' = IF mounted /\ ~isLoading
                 THEN [latitude |-> location.latitude,
                       longitude |-> location.longitude,
                       latitudeDelta |-> 1000, longitudeDelta |-> 1000]
                 ELSE region
    /\ isLoading' = FALSE
    /\ lateWrites' = Late("goToMyLocation")
    /\ UNCHANGED << variant, authVars, mounted, errorMsg, reports, isLoadingReports,
                    formVars, selVars, alert, fetchPc, locVars, watchVars,
                    submits, confirms, deleteDialog, deletes, envVars,
                    counters >>

\* goToMyLocation_failed with a catch block that falls back to the default
\* region
goToMyLocation_failed_recenters ==
    /\ goTos > 0
    /\ goTos' = goTos - 1
    /\ errorMsg' = "Could not update location. Using the current map view."
    /\ isLoading' = FALSE
    /\ region' = DEFAULT_LOCATION
    /\ alert' = IF variant = "police" THEN "Location Not Available" ELSE alert
    /\ lateWrites' = Late("goToMyLocation")
    /\ UNCHANGED << variant, authVars, mounted, userLocation, reports,
                    isLoadingReports, formVars, selVars, fetchPc, locVars,
                    watchVars, submits, confirms, deleteDialog, deletes,
                    envVars, counters >>

\* the race of a pending call is lost: the position call rejected, or the
\* 5000 ms timer rejected first; the catch block runs.  The race is settled
\* by then, so a position that resolves later has no continuation to run.
goToMyLocation_failed ==
    /\ goTos > 0
    /\ goTos' = goTos - 1
    /\ errorMsg' = "Could not update location. Using the current map view."
    /\ isLoading' = FALSE
    /\ alert' = IF variant = "police" THEN "Location Not Available" ELSE alert
    /\ lateWrites' = Late("goToMyLocation")
    /\ UNCHANGED << variant, authVars, mounted, region, userLocation, reports,
                    isLoadingReports, formVars, selVars, fetchPc, locVars,
                    watchVars, submits, confirms, deleteDialog, deletes,
                    envVars, counters >>

----------------------------------------------------------------------------
(* handleReportSubmit *)

\* probability with a factor of 42
probability_wide(k) == 30 + ((k * 42) \div RandomDenominator)

\* 30 + Math.floor(Math.random() * 41), Math.random() = k / RandomDenominator
probability(k) == 30 + ((k * 41) \div RandomDenominator)

\* the newReport object literal
newReport(t, k) ==
    [report_id |-> t,
     descriptor |-> reportDescription,
     latitude |-> IF variant = "police" THEN Around(region.latitude, 500)
                                        ELSE Exact(region.latitude),
     longitude |-> IF variant = "police" THEN Around(region.longitude, 500)
                                         ELSE Exact(region.longitude),
     confirm_bool |-> "null",
     probability |-> probability(k)]

\* the submit button is pressed: the handler runs up to `await fetch(POST)`
\* at time t, with k the draw of Math.random() for the probability
handleReportSubmit(t, k) ==
    /\ controlsShown
    /\ modalVisible
    \* disabled={!reportType || !reportDescription} (police),
    \* disabled={!reportDescription} (citizen)
    /\ IF variant = "police"
       THEN reportType # "" /\ reportDescription # ""
       ELSE reportDescription # ""
    \* if (reportType && reportDescription)
    /\ reportType # "" /\ reportDescription # ""
    /\ nSubmits < MaxSubmits
    /\ nSubmits' = nSubmits + 1
    /\ now' = t
    /\ submits' = Append(submits, [newReport |-> newReport(t, k),
                                   reports |-> reports])
    /\ UNCHANGED << variant, authVars, mounted, region, userLocation, isLoading,
                    errorMsg, reports, isLoadingReports, formVars, selVars,
                    alert, fetchPc, locVars, watchVars, confirms,
                    deleteDialog, deletes, goTos, serverReports, nRefresh,
                    nConfirms, nDeletes, nGoTo, lateWrites >>

\* the list the handler passes to setReports once its POST has settled
submittedReports(s, outcome) ==
    IF variant = "police"
    THEN << s.newReport >> \o s.reports
    ELSE IF outcome = "throw" THEN reports
                              ELSE << s.newReport >> \o s.reports

\* handleReportSubmit_settled that sends the POST again when it threw
handleReportSubmit_settled_retry(i, outcome) ==
    /\ i \in 1..Len(submits)
    /\ submits' = IF outcome = "throw"
                  THEN Append(Remove(submits, i), submits[i])
                  ELSE Remove(submits, i)
    /\ reports' = submittedReports(submits[i], outcome)
    /\ alert' = IF variant = "police" THEN alert
                ELSE IF outcome = "throw" THEN "Submission Error"
                                          ELSE "Report Submitted"
    /\ modalVisible' = FALSE
    /\ reportType' = "Impaired Driving"
    /\ reportDescription' = ""
    /\ serverReports' = IF outcome = "ok"
                        THEN Append(serverReports, submits[i].newReport)
                        ELSE serverReports
    /\ lateWrites' = Late("handleReportSubmit")
    /\ UNCHANGED << variant, authVars, mounted, region, userLocation, isLoading,
                    errorMsg, isLoadingReports, selVars, fetchPc, locVars,
                    watchVars, confirms, deleteDialog, deletes, goTos, now,
                    counters >>

\* the POST of the i-th pending submit settles; the handler runs to its end
handleReportSubmit_settled(i, outcome) ==
    /\ i \in 1..Len(submits)
    /\ submits' = Remove(submits, i)
    /\ reports' = submittedReports(submits[i], outcome)
    /\ alert' = IF variant = "police" THEN alert
                ELSE IF outcome = "throw" THEN "Submission Error"
                                          ELSE "Report Submitted"
    /\ modalVisible' = FALSE
    /\ reportType' = "Impaired Driving"
    /\ reportDescription' = ""
    /\ serverReports' = IF outcome = "ok"
                        THEN Append(serverReports, submits[i].newReport)
                        ELSE serverReports
    /\ lateWrites' = Late("handleReportSubmit")
    /\ UNCHANGED << variant, authVars, mounted, region, userLocation, isLoading,
                    errorMsg, isLoadingReports, selVars, fetchPc, locVars,
                    watchVars, confirms, deleteDialog, deletes, goTos, now,
                    counters >>

----------------------------------------------------------------------------
(* Selection, confirm and delete (PoliceViewScreen) *)

\* Marker onPress: handleMarkerPress(report, e)
handleMarkerPress(i) ==
    /\ controlsShown
    /\ variant = "police"
    /\ i \in 1..Len(reports)
    /\ markerPressed' = TRUE
    /\ selectedReport' = Some(reports[i])
    /\ UNCHANGED << variant, authVars, mounted, region, userLocation, isLoading,
                    errorMsg, reports, isLoadingReports, formVars, alert,
                    fetchPc, locVars, watchVars, pendingVars, envVars,
                    counters, lateWrites >>

\* MapView onPress
handleMapPress ==
    /\ controlsShown
    /\ variant = "police"
    /\ selectedReport' = IF ~markerPressed THEN Null ELSE selectedReport
    /\ markerPressed' = FALSE
    /\ UNCHANGED << variant, authVars, mounted, region, userLocation, isLoading,
                    errorMsg, reports, isLoadingReports, formVars, alert,
                    fetchPc, locVars, watchVars, pendingVars, envVars,
                    counters, lateWrites >>

\* {selectedReport && selectedReport.confirm_bool == "null" && ( buttons )}
floatingButtonsShown ==
    /\ controlsShown
    /\ variant = "police"
    /\ selectedReport # Null
    /\ selectedReport[1].confirm_bool = "null"

\* confirmedReports without the test of the id
confirmedReports_all(xs, id) ==
    [i \in 1..Len(xs) |-> [xs[i] EXCEPT !.confirm_bool = "safe"]]

\* reports.map(r => r.report_id === id ? {...r, confirm_bool: "safe"} : r)
confirmedReports(xs, id) ==
    [i \in 1..Len(xs) |->
        IF xs[i].report_id = id THEN [xs[i] EXCEPT !.confirm_bool = "safe"]
                                ELSE xs[i]]

\* "Confirm Event" is pressed: the handler runs up to `await fetch(PUT)`
confirm_onPress ==
    /\ floatingButtonsShown
    /\ nConfirms < MaxConfirms
    /\ nConfirms' = nConfirms + 1
    /\ reports' = confirmedReports(reports, selectedReport[1].report_id)
    /\ confirms' = Append(confirms, selectedReport[1].report_id)
    /\ UNCHANGED << variant, authVars, mounted, region, userLocation, isLoading,
                    errorMsg, isLoadingReports, formVars, selVars, alert,
                    fetchPc, locVars, watchVars, submits, deleteDialog,
                    deletes, goTos, envVars, nSubmits, nRefresh, nDeletes,
                    nGoTo, lateWrites >>

\* the PUT of the i-th pending confirm settles
confirm_settled(i, outcome) ==
    /\ i \in 1..Len(confirms)
    /\ confirms' = Remove(confirms, i)
    /\ selectedReport' = Null
    /\ serverReports' = IF outcome = "ok"
                        THEN confirmedReports(serverReports, confirms[i])
                        ELSE serverReports
    /\ lateWrites' = Late("confirm")
    /\ UNCHANGED << variant, authVars, mounted, region, userLocation, isLoading,
                    errorMsg, reports, isLoadingReports, formVars,
                    markerPressed, alert, fetchPc, locVars, watchVars,
                    submits, deleteDialog, deletes, goTos, now, counters >>

\* the trash button is pressed: Alert.alert("Delete Incident", ...) with the
\* `reports` and `selectedReport` of this render in its Delete callback
trash_onPress ==
    /\ floatingButtonsShown
    /\ nDeletes < MaxDeletes
    /\ deleteDialog' = Some([reports |-> reports,
                             selectedReport |-> selectedReport[1]])
    /\ UNCHANGED << variant, authVars, mounted, region, userLocation, isLoading,
                    errorMsg, reports, isLoadingReports, formVars, selVars,
                    alert, fetchPc, locVars, watchVars, submits, confirms,
                    deletes, goTos, envVars, counters, lateWrites >>

\* "Cancel" of the dialog
delete_cancel ==
    /\ deleteDialog # Null
    /\ deleteDialog' = Null
    /\ UNCHANGED << variant, authVars, mounted, region, userLocation, isLoading,
                    errorMsg, reports, isLoadingReports, formVars, selVars,
                    alert, fetchPc, locVars, watchVars, submits, confirms,
                    deletes, goTos, envVars, counters, lateWrites >>

\* updatedReports with === in place of !==
updatedReports_inverted(closure) ==
    SelectSeq(closure.reports,
              LAMBDA r : r.report_id = closure.selectedReport.report_id)

\* the list the Delete callback passes to setReports
updatedReports(closure) ==
    Filter(closure.reports, closure.selectedReport.report_id)

\* "Delete" of the dialog: the callback runs up to `await fetch(DELETE)`
delete_onPress ==
    /\ deleteDialog # Null
    /\ deleteDialog' = Null
    /\ reports' = updatedReports(deleteDialog[1])
    /\ deletes' = Append(deletes, deleteDialog[1].selectedReport.report_id)
    /\ nDeletes' = nDeletes + 1
    /\ lateWrites' = Late("delete")
    /\ UNCHANGED << variant, authVars, mounted, region, userLocation, isLoading,
                    errorMsg, isLoadingReports, formVars, selVars, alert,
                    fetchPc, locVars, watchVars, submits, confirms, goTos,
                    envVars, nSubmits, nRefresh, nConfirms, nGoTo >>

\* the DELETE of the i-th pending delete settles
delete_settled(i, outcome) ==
    /\ i \in 1..Len(deletes)
    /\ deletes' = Remove(deletes, i)
    /\ selectedReport' = Null
    /\ serverReports' = IF outcome = "ok"
                        THEN Filter(serverReports, deletes[i])
                        ELSE serverReports
    /\ lateWrites' = Late("delete")
    /\ UNCHANGED << variant, authVars, mounted, region, userLocation, isLoading,
                    errorMsg, reports, isLoadingReports, formVars,
                    markerPressed, alert, fetchPc, locVars, watchVars,
                    submits, confirms, deleteDialog, goTos, now, counters >>

----------------------------------------------------------------------------
(* Marker colours (PoliceViewScreen) *)

\* `x || d` for a number x that may be absent: 0 and undefined are falsy
OrDefault(x, d) == IF x = Undefined \/ x = 0 THEN d ELSE x

\* getMarkerColor(report)
getMarkerColor(report) ==
    IF report.confirm_bool # "null"
    THEN "#8B0000"
    ELSE \* const probability = report.probability || 50
         LET p == OrDefault(report.probability, 50)
         IN  IF p >= 65 THEN "#FF0000"
             ELSE IF p >= 50 THEN "#FF4500"
             ELSE IF p >= 40 THEN "#FF8C00"
             ELSE "#FFA500"

\* pinColor={getMarkerColor(report)} of the markers of the rendered list
pinColor == [i \in 1..Len(reports) |-> getMarkerColor(reports[i])]

----------------------------------------------------------------------------
(* Next-state relations.  Next is the whole screen.  The others leave out   *)
(* the controls the user does not touch in the scenario, which keeps each   *)
(* state space within reach of exhaustive search.  SpecSubmit and           *)
(* SpecDelete also leave out the position subscription, which writes        *)
(* userLocation alone, a variable no submit or delete handler reads.        *)

\* what runs without the user: the mount effects and the unmount
MountActions ==
    \/ \E o \in {"ok", "non2xx", "throw"} : fetchReports_response(o)
    \/ \E b \in Bodies : fetchReports_json(b)
    \/ \E st \in {"granted", "denied", "throw"} : getLocation_permission(st)
    \/ locationTimeout_fires
    \/ \E l \in Fixes : getLocation_position(l)
    \/ getLocation_positionError
    \/ cleanup

\* the standing position subscription
WatchActions ==
    \/ startLocationUpdates_resolved
    \/ startLocationUpdates_rejected
    \/ \E l \in Fixes : watchPosition_update(l)

\* the map, the alerts and the refresh button
MapActions ==
    \/ alert_dismiss
    \/ \E r \in PanRegions : onRegionChangeComplete(r)
    \/ refreshReports

\* the report modal
FormActions ==
    \/ \E v \in BOOLEAN : setModalVisible(v)
    \/ \E d \in Descriptions \cup {""} : setReportDescription(d)
    \/ \E t \in now..(now + 1), k \in RandomDraws :
          t <= MaxNow /\ handleReportSubmit(t, k)
    \/ \E i \in 1..MaxSubmits, o \in Outcomes :
          handleReportSubmit_settled(i, o)

\* One touch on a marker whose press event also reaches the MapView:
\* handleMarkerPress(report, e), then handleMapPress in the render that
\* follows it (markerPressed is true there, so the selection is kept and
\* the flag reset).  Where stopPropagation and the `return true` of the
\* Marker's onPress keep the event from the map, the touch is
\* handleMarkerPress(i) alone, and handleMapPress is a touch on the map.
handleMarkerPress_propagated(i) ==
    /\ controlsShown
    /\ variant = "police"
    /\ i \in 1..Len(reports)
    /\ selectedReport' = Some(reports[i])
    /\ markerPressed' = FALSE
    /\ UNCHANGED << variant, authVars, mounted, region, userLocation, isLoading,
                    errorMsg, reports, isLoadingReports, formVars, alert,
                    fetchPc, locVars, watchVars, pendingVars, envVars,
                    counters, lateWrites >>

\* marker selection
SelectActions ==
    \/ \E i \in 1..(Len(SAMPLE_REPORTS_citizen) + MaxSubmits) :
          handleMarkerPress(i)
    \/ \E i \in 1..(Len(SAMPLE_REPORTS_citizen) + MaxSubmits) :
          handleMarkerPress_propagated(i)
    \/ handleMapPress

\* the my-location button
GoToActions ==
    \/ goToMyLocation
    \/ \E l \in Fixes : goToMyLocation_resolved(l)
    \/ goToMyLocation_failed

ConfirmActions ==
    \/ confirm_onPress
    \/ \E i \in 1..MaxConfirms, o \in Outcomes : confirm_settled(i, o)

DeleteActions ==
    \/ trash_onPress
    \/ delete_cancel
    \/ delete_onPress
    \/ \E i \in 1..MaxDeletes, o \in Outcomes : delete_settled(i, o)

Next ==
    \/ MountActions
    \/ WatchActions
    \/ MapActions
    \/ FormActions
    \/ SelectActions
    \/ GoToActions
    \/ ConfirmActions
    \/ DeleteActions

Spec == Init /\ [][Next]_vars

\* mount, location race, report fetch and refresh, unmount
NextMount == MountActions \/ WatchActions \/ MapActions
SpecMount == Init /\ [][NextMount]_vars

\* the same with the report modal
NextSubmit == MountActions \/ MapActions \/ FormActions
SpecSubmit == Init /\ [][NextSubmit]_vars

\* the same with marker selection and delete
NextDelete == MountActions \/ MapActions \/ SelectActions \/ DeleteActions
SpecDelete == Init /\ [][NextDelete]_vars

\* marker selection with confirm and delete
NextEdit ==
    MountActions \/ MapActions \/ SelectActions \/ ConfirmActions
       \/ DeleteActions
SpecEdit == Init /\ [][NextEdit]_vars

\* mount, location race and the my-location button
NextLocate == MountActions \/ MapActions \/ GoToActions
SpecLocate == Init /\ [][NextLocate]_vars

\* the Promise.race of a pending goToMyLocation call settles
goToMyLocation_settles ==
    \/ \E l \in Fixes : goToMyLocation_resolved(l)
    \/ goToMyLocation_failed

\* The same under the scheduling the runtime guarantees: a timer that was
\* scheduled and not cleared runs its callback, and the race of
\* goToMyLocation settles, after 5000 ms at the latest, because nothing
\* clears its timer.  Nothing is assumed of the platform's promises (the
\* permission request, the position call, the report fetch) or of the user.
SpecLocateFair ==
    /\ SpecLocate
    /\ WF_vars(locationTimeout_fires)
    /\ WF_vars(goToMyLocation_settles)

\* the four actions that talk to the API, with the steps that bring their
\* controls on screen: one way of filling the form, no pan, no unmount
NextRequests ==
    \/ \E o \in {"ok", "non2xx", "throw"} : fetchReports_response(o)
    \/ \E b \in Bodies : fetchReports_json(b)
    \/ \E st \in {"granted", "denied", "throw"} : getLocation_permission(st)
    \/ locationTimeout_fires
    \/ alert_dismiss
    \/ refreshReports
    \/ setModalVisible(TRUE)
    \/ \E d \in Descriptions : setReportDescription(d)
    \/ \E k \in RandomDraws :
          now + 1 <= MaxNow /\ handleReportSubmit(now + 1, k)
    \/ \E i \in 1..MaxSubmits, o \in Outcomes :
          handleReportSubmit_settled(i, o)
    \/ \E i \in 1..(Len(SAMPLE_REPORTS_citizen) + MaxSubmits) :
          handleMarkerPress(i)
    \/ ConfirmActions
    \/ trash_onPress
    \/ delete_onPress
    \/ \E i \in 1..MaxDeletes, o \in Outcomes : delete_settled(i, o)
SpecRequests == Init /\ [][NextRequests]_vars

\* the report modal over the lists of InitIds
SpecIds == InitIds /\ [][NextSubmit]_vars

\* PoliceViewScreen over the lists of InitMarkers: the mount effects
SpecMarkers == InitMarkers /\ [][MountActions]_vars

----------------------------------------------------------------------------
(* Properties *)

\* a list holds a report with this id
HasId(xs, id) == \E j \in 1..Len(xs) : xs[j].report_id = id

\* C1: when the handler of a submit with description D has finished, whether
\* its POST succeeded or threw, the head of the report list has descriptor D
\* and a probability in 30..70.
C1_OptimisticCreate ==
    [][\A i \in 1..Len(submits), o \in Outcomes :
         handleReportSubmit_settled(i, o) =>
            /\ reports' # << >>
            /\ Head(reports').descriptor = submits[i].newReport.descriptor
            /\ Head(reports').probability \in 30..70]_vars

\* C2: a submit press prepends the synthesized report at once, before the
\* POST has settled.
C2_PrependBeforePostSettles ==
    [][\A t \in now..(now + 1), k \in RandomDraws :
         handleReportSubmit(t, k) =>
            /\ reports' # << >>
            /\ Head(reports') = newReport(t, k)]_vars

\* C3 as stated: when the delete handler of report R has finished, no report
\* of the list has id R, and the Delete press removed the reports of id R
\* from the list on screen, keeping the others in their order.
C3_DeleteAsStated ==
    [][/\ \A i \in 1..Len(deletes), o \in Outcomes :
            delete_settled(i, o) => ~HasId(reports', deletes[i])
       /\ delete_onPress =>
            reports' = SelectSeq(reports,
                LAMBDA r : r.report_id #
                           deleteDialog[1].selectedReport.report_id)]_vars

\* C3 amended: the Delete press sets the list to the list that was on screen
\* when the dialog was opened, without its reports of id R and otherwise in
\* the same order, so that no report of the list has id R right after the
\* press; the DELETE settling, with any outcome, leaves the list as it is.
C3_DeleteLocalFirst ==
    [][/\ delete_onPress =>
            /\ ~HasId(reports', deleteDialog[1].selectedReport.report_id)
            /\ reports' = SelectSeq(deleteDialog[1].reports,
                  LAMBDA r : r.report_id #
                             deleteDialog[1].selectedReport.report_id)
       /\ \A i \in 1..Len(deletes), o \in Outcomes :
            delete_settled(i, o) => reports' = reports]_vars

\* C3 witness: report 7 was deleted out of the fetched list and its DELETE
\* is in flight; report 8 is what remains.
C3_Witness ==
    /\ deletes = << 7 >>
    /\ reports = << ServerReports[2] >>

\* C4: a fetch that ends with an error status, a thrown error, or a body
\* whose status is not 'success' or whose reports are no array sets the list
\* to SAMPLE_REPORTS; a body with status 'success' and an array sets it to
\* that array.
C4_FetchFallback ==
    [][/\ \A o \in {"non2xx", "throw"} :
            fetchReports_response(o) => reports' = SAMPLE_REPORTS
       /\ \A b \in Bodies :
            fetchReports_json(b) =>
               reports' = IF b.parsed /\ b.status = "success"
                             /\ b.reports # Null
                          THEN serverReports
                          ELSE SAMPLE_REPORTS]_vars

\* C4 witness: a fetch has ended and the list is the sample set, with no
\* error dialog (the body was parsed but was not a success with an array).
C4_Witness ==
    /\ fetchPc = "idle"
    /\ ~isLoadingReports
    /\ reports = SAMPLE_REPORTS
    /\ alert = "none"
    /\ nRefresh = 0
    /\ isLoading

\* C5: every fetch outcome that falls back to the sample set raises the
\* "Data Loading Error" alert.
C5_FallbackAlwaysAlerts ==
    [][/\ \A o \in {"non2xx", "throw"} :
            fetchReports_response(o) => alert' = "Data Loading Error"
       /\ \A b \in Bodies :
            (fetchReports_json(b) /\ reports' = SAMPLE_REPORTS) =>
               alert' = "Data Loading Error"]_vars

\* C6: after the timer has fired, a position fix changes neither region nor
\* userLocation nor the report list; after a fix was applied the timer
\* callback does not run.
C6_LoserDiscarded ==
    [][/\ (locationTimeout = "fired"
           /\ \E l \in Fixes : getLocation_position(l))
          => UNCHANGED << region, userLocation, reports >>
       /\ getLocPc = "done" => ~locationTimeout_fires]_vars

\* C7: the timer runs out only while the position call, made after the
\* permission was granted, is unresolved, and its callback leaves the region
\* equal to DEFAULT_LOCATION in all four fields and isLoading false; while
\* the position call is unresolved on a mounted screen the timer is pending
\* or has fired.
C7_TimeoutAdoptsDefault ==
    /\ [][(locationTimeout = "pending" /\ locationTimeout' = "fired") =>
            /\ getLocPc = "awaitPosition"
            /\ region' = DEFAULT_LOCATION
            /\ isLoading' = FALSE]_vars
    /\ []((mounted /\ getLocPc = "awaitPosition") =>
            locationTimeout \in {"pending", "fired"})

\* C7 witness: the timer has fired while the position call is unresolved.
C7_Witness ==
    /\ locationTimeout = "fired"
    /\ getLocPc = "awaitPosition"
    /\ region = DEFAULT_LOCATION
    /\ ~isLoading

\* C8: once the screen has unmounted and the watch call has settled, no
\* position subscription is active.
C8_SubscriptionCancelled ==
    (~mounted /\ watchPc = "done") => ~subActive

\* C9: after the unmount the timer callback never runs.
C9_NoTimeoutAfterUnmount ==
    [][~mounted => ~(locationTimeout = "pending"
                     /\ locationTimeout' = "fired")]_vars

\* fetchReports resumes after one of its awaits
fetchReports_settles ==
    \/ \E o \in {"ok", "non2xx", "throw"} : fetchReports_response(o)
    \/ \E b \in Bodies : fetchReports_json(b)

\* C10: the unmount leaves a fetchReports call in flight as it is, a call in
\* flight on an unmounted screen can still settle, and when it ends it
\* writes the report list and clears isLoadingReports.
C10_FetchNotCancelled ==
    /\ [][(mounted /\ ~mounted') => fetchPc' = fetchPc]_vars
    /\ []((~mounted /\ fetchPc # "idle") => ENABLED fetchReports_settles)
    /\ [][(~mounted /\ fetchPc # "idle" /\ fetchPc' = "idle") =>
            /\ reports' \in {SAMPLE_REPORTS, serverReports}
            /\ isLoadingReports' = FALSE]_vars

\* C10 witness: fetchReports has written state after the unmount.
C10_Witness ==
    /\ ~mounted
    /\ "fetchReports" \in lateWrites
    /\ ~isLoadingReports
    /\ reports = serverReports

\* C11: when the permission request returns a status other than 'granted',
\* the denial message is set, isLoading is cleared, no timer is scheduled,
\* getLocation ends without asking for the position, and the region is
\* DEFAULT_LOCATION; as long as the denial message is shown no timer exists
\* and getLocation has ended.
C11_PermissionDenied ==
    /\ [][getLocation_permission("denied") =>
            /\ errorMsg' = "Permission to access location was denied"
            /\ isLoading' = FALSE
            /\ locationTimeout' = "undefined"
            /\ getLocPc' = "done"
            /\ region' = DEFAULT_LOCATION]_vars
    /\ [](errorMsg = "Permission to access location was denied" =>
            /\ locationTimeout = "undefined"
            /\ getLocPc = "done")

\* C11 witness: the permission was denied and the screen shows the map at
\* the default region with the denial message.
C11_Witness ==
    /\ errorMsg = "Permission to access location was denied"
    /\ ~isLoading
    /\ locationTimeout = "undefined"
    /\ getLocPc = "done"
    /\ region = DEFAULT_LOCATION

\* C12: the marker of a report that is confirmed has colour '#8B0000'; the
\* marker of an unconfirmed report with probability p has '#FF0000' if
\* p >= 65, '#FF4500' if 50 <= p < 65, '#FF8C00' if 40 <= p < 50 and
\* '#FFA500' otherwise.
C12_MarkerColour ==
    \A i \in 1..Len(reports) :
       LET p == reports[i].probability
       IN  p # Undefined =>
             pinColor[i] =
                IF reports[i].confirm_bool # "null" THEN "#8B0000"
                ELSE IF p >= 65 THEN "#FF0000"
                ELSE IF p >= 50 THEN "#FF4500"
                ELSE IF p >= 40 THEN "#FF8C00"
                ELSE "#FFA500"

\* the alarm tier of a colour of an unconfirmed report
Tier(colour) ==
    CASE colour = "#FFA500" -> 1
      [] colour = "#FF8C00" -> 2
      [] colour = "#FF4500" -> 3
      [] colour = "#FF0000" -> 4

\* C13: of two unconfirmed reports on the map with probabilities
\* p1 <= p2 in 0..100, the marker of the first has no higher alarm tier
\* than the marker of the second.
C13_MarkerMonotonic ==
    \A i, j \in 1..Len(reports) :
       (/\ reports[i].confirm_bool = "null"
        /\ reports[j].confirm_bool = "null"
        /\ reports[i].probability \in Probabilities
        /\ reports[j].probability \in Probabilities
        /\ reports[i].probability <= reports[j].probability)
       => Tier(pinColor[i]) <= Tier(pinColor[j])

\* C14: a fetch that ends with a success body sets the list to the API's
\* list, whatever the list on screen was; a DELETE or PUT that failed has
\* changed nothing at the API and its handler leaves the list on screen as
\* it is.  So a report deleted or confirmed on screen alone comes back as
\* the API holds it with the next successful refresh.
C14_RefreshOverwrites ==
    [][/\ \A b \in Bodies :
            (/\ fetchReports_json(b)
             /\ b.parsed /\ b.status = "success" /\ b.reports # Null)
            => reports' = serverReports
       /\ \A i \in 1..Len(deletes), o \in {"non2xx", "throw"} :
            delete_settled(i, o) => UNCHANGED << serverReports, reports >>
       /\ \A i \in 1..Len(confirms), o \in {"non2xx", "throw"} :
            confirm_settled(i, o) => UNCHANGED << serverReports, reports >>]_vars

\* C14 witness: a report was deleted on screen, its DELETE failed (the API
\* still holds both reports), the refresh button was pressed and the fetch
\* has ended: the deleted report is on screen again.
C14_Witness ==
    /\ nDeletes = 1
    /\ deletes = << >>
    /\ nConfirms = 0
    /\ serverReports = ServerReports
    /\ nRefresh = 1
    /\ fetchPc = "idle"
    /\ reports = ServerReports

\* C15: the Confirm press sets confirm_bool of the reports of the list on
\* screen whose id is the selected report's to "safe", leaves the other
\* reports, the length and the order of the list as they are, and puts the
\* PUT in flight; the PUT settling, with any outcome, leaves the list as it
\* is.
C15_ConfirmLocalFirst ==
    [][/\ confirm_onPress =>
            /\ Len(reports') = Len(reports)
            /\ \A j \in 1..Len(reports) :
                  reports'[j] =
                     IF reports[j].report_id = selectedReport[1].report_id
                     THEN [reports[j] EXCEPT !.confirm_bool = "safe"]
                     ELSE reports[j]
            /\ confirms' = Append(confirms, selectedReport[1].report_id)
       /\ \A i \in 1..Len(confirms), o \in Outcomes :
            confirm_settled(i, o) => reports' = reports]_vars

\* C15 witness: report 7 of the fetched list was confirmed, its PUT failed
\* (the API holds it unconfirmed), and the list on screen keeps it
\* confirmed, with report 8 untouched behind it.
C15_Witness ==
    /\ nConfirms = 1
    /\ confirms = << >>
    /\ serverReports = ServerReports
    /\ reports = << [ServerReports[1] EXCEPT !.confirm_bool = "safe"],
                    ServerReports[2] >>

\* HTTP requests that were sent and have not been answered
requestsInFlight ==
    (IF fetchPc = "awaitFetch" THEN 1 ELSE 0)
       + Len(submits) + Len(confirms) + Len(deletes)

\* fetch, submit, confirm and delete actions started so far: the fetch of
\* the mount effect and the presses of the four buttons
actionsStarted == 1 + nRefresh + nSubmits + nConfirms + nDeletes

\* the request of one of these actions is answered or fails
request_settles ==
    \/ \E o \in {"ok", "non2xx", "throw"} : fetchReports_response(o)
    \/ \E i \in 1..Len(submits), o \in Outcomes :
          handleReportSubmit_settled(i, o)
    \/ \E i \in 1..Len(confirms), o \in Outcomes : confirm_settled(i, o)
    \/ \E i \in 1..Len(deletes), o \in Outcomes : delete_settled(i, o)

\* C16: a step that starts a fetch, submit, confirm or delete action sends
\* exactly one request; a step in which a request is answered or fails,
\* with any outcome, ends that request and sends none; no other step sends
\* a request.
C16_NoRetries ==
    [][/\ actionsStarted' # actionsStarted =>
            /\ actionsStarted' = actionsStarted + 1
            /\ requestsInFlight' = requestsInFlight + 1
       /\ request_settles =>
            /\ actionsStarted' = actionsStarted
            /\ requestsInFlight' = requestsInFlight - 1
       /\ (actionsStarted' = actionsStarted /\ ~request_settles) =>
            requestsInFlight' = requestsInFlight]_vars

\* C16 witness: the refresh, a submit, a confirm and a delete were each
\* started once, the POST, the PUT and the DELETE have failed (the API
\* holds what it held), and no request is in flight.
C16_Witness ==
    /\ nRefresh = 1 /\ nSubmits = 1 /\ nConfirms = 1 /\ nDeletes = 1
    /\ requestsInFlight = 0
    /\ serverReports = ServerReports

\* C17: the report a submit creates is unconfirmed and its id is greater
\* than the id of every report of the list on screen, and the ids of the
\* list on screen are always pairwise distinct.
C17_FreshIds ==
    /\ [][\A t \in now..(now + 1), k \in RandomDraws :
            handleReportSubmit(t, k) =>
               /\ newReport(t, k).confirm_bool = "null"
               /\ \A j \in 1..Len(reports) :
                     reports[j].report_id < newReport(t, k).report_id]_vars
    /\ [](\A i, j \in 1..Len(reports) :
            i # j => reports[i].report_id # reports[j].report_id)

\* C18: the generator 30 + floor(r * 41) yields an integer in 30..70 for
\* every draw r; every report a submit has synthesized, pending or on
\* screen (a report on screen that the API did not hold at mount), and
\* every entry of the sample sets has a probability in 30..70.
C18_ProbabilityRange ==
    /\ \A k \in 0..(RandomDenominator - 1) : probability(k) \in 30..70
    /\ \A i \in 1..Len(submits) :
          submits[i].newReport.probability \in 30..70
    /\ \A i \in 1..Len(reports) :
          ~HasId(ServerReports, reports[i].report_id) =>
             reports[i].probability \in 30..70
    /\ \A i \in 1..Len(SAMPLE_REPORTS_police) :
          SAMPLE_REPORTS_police[i].probability \in 30..70
    /\ \A i \in 1..Len(SAMPLE_REPORTS_citizen) :
          SAMPLE_REPORTS_citizen[i].probability \in 30..70
    /\ \A i \in 1..Len(SAMPLE_REPORTS_mock_probability) :
          SAMPLE_REPORTS_mock_probability[i] \in 30..70

\* C18 witness: a report submitted with the highest draw of Math.random()
\* heads the list on screen with probability 70.
C18_Witness ==
    /\ reports # << >>
    /\ Head(reports).report_id >= 10
    /\ Head(reports).probability = 70

\* C19: once the permission request of the mount effect has settled, the
\* screen, unless it is unmounted, comes to a state where isLoading is
\* false, whether the permission was denied or its request threw, a fix
\* arrived, the position call rejected, or the position call never settles.
C19_LoadingEnds ==
    (getLocPc # "awaitPermission") ~> (~isLoading \/ ~mounted)

\* C19 witness: the position call has not settled, the timer has fired and
\* the map is on screen with no error message.
C19_Witness ==
    /\ mounted
    /\ getLocPc = "awaitPosition"
    /\ locationTimeout = "fired"
    /\ ~isLoading
    /\ errorMsg = "null"

\* C20: whenever errorMsg is set, it is null again at some later time.
C20_BannerTransient ==
    (errorMsg # "null") ~> (errorMsg = "null")

\* C21: a position delivered by the subscription sets userLocation to that
\* position and leaves the region, the report list, the selected report,
\* isLoading, isLoadingReports and errorMsg as they are.
C21_WatchMovesMarkerOnly ==
    [][\A l \in Fixes :
         watchPosition_update(l) =>
            /\ userLocation' = [latitude |-> l.latitude,
                                longitude |-> l.longitude]
            /\ UNCHANGED << region, reports, selectedReport, isLoading,
                            isLoadingReports, errorMsg >>]_vars

\* C21 witness: the subscription has delivered a position while getLocation
\* still awaits the permission: the marker has moved, the region has not.
C21_Witness ==
    /\ subActive
    /\ getLocPc = "awaitPermission"
    /\ userLocation \in Fixes
    /\ region = DEFAULT_LOCATION
    /\ isLoading

\* C22: on PoliceViewScreen, once fetchReports has ended with the list set
\* to the API's list, neither the 5 second timer nor the position fix
\* changes the list.
C22_FetchNotClobbered ==
    [][(/\ variant = "police"
        /\ fetchPc = "idle"
        /\ reports = serverReports
        /\ (locationTimeout_fires \/ \E l \in Fixes : getLocation_position(l)))
       => reports' = serverReports]_vars

\* C23: when the handler of a submit prepends its report, the rest of the
\* list is the list that was on screen just before, so that what other
\* handlers wrote while the POST was pending is kept.
C23_SubmitKeepsChanges ==
    [][\A i \in 1..Len(submits), o \in Outcomes :
         (/\ handleReportSubmit_settled(i, o)
          /\ (variant = "police" \/ o # "throw"))
         => reports' = << submits[i].newReport >> \o reports]_vars

\* C24: on PoliceViewScreen, whenever selectedReport is not null, the list
\* on screen holds a report with its id; so the Confirm press and the
\* Delete press act on a report the list holds.
C24_SelectionInList ==
    /\ []((variant = "police" /\ selectedReport # Null) =>
            HasId(reports, selectedReport[1].report_id))
    /\ [][/\ confirm_onPress =>
               HasId(reports, selectedReport[1].report_id)
          /\ delete_onPress =>
               HasId(reports, deleteDialog[1].selectedReport.report_id)]_vars

\* C25: a touch on the map itself (not the propagated press of a marker)
\* clears the selected report, and a touch on a marker leaves that marker's
\* report selected, whether or not the marker's press reaches the map.
C25_MapPressClears ==
    [][/\ (/\ handleMapPress
           /\ ~ \E i \in 1..Len(reports) : handleMarkerPress_propagated(i))
          => selectedReport' = Null
       /\ \A i \in 1..Len(reports) :
            (handleMarkerPress(i) \/ handleMarkerPress_propagated(i))
               => selectedReport' = Some(reports[i])]_vars

----------------------------------------------------------------------------
(* The report form of the sample-data screens.  These screens hold their   *)
(* reports in memory (useState(SAMPLE_REPORTS)) and call no API; the       *)
(* variable `variant` names the file of the screen.                        *)

MaxFormSubmits == 2

SampleScreens == {"part_000", "part_001", "index.tsx", "explore.tsx"}

\* useState(...) of reportType
reportType_initial(v) ==
    IF v = "part_001" THEN "Impaired Driving" ELSE ""

\* the value the modal's type button passes to setReportType; "" where the
\* modal has no such button (the only call of setReportType is then the
\* reset in handleReportSubmit)
typeButton(v) ==
    CASE v = "part_000" -> "Drunk Driving"
      [] v = "explore.tsx" -> "Impaired Driving"
      [] OTHER -> ""

\* the ids and types of SAMPLE_REPORTS; the other fields are read by no
\* action of the form
SampleList(n, type) ==
    [i \in 1..n |-> [id |-> i, type |-> type,
                     latitude |-> DEFAULT_LOCATION.latitude,
                     longitude |-> DEFAULT_LOCATION.longitude,
                     description |-> "sample"]]

SAMPLE_REPORTS_of(v) ==
    CASE v = "part_000" -> SampleList(3, "Drunk Driving")
      [] v = "part_001" -> SampleList(20, "Impaired Driving")
      [] v = "index.tsx" -> SampleList(5, "Drunk Driving")
      [] OTHER -> SampleList(3, "Impaired Driving")

\* a sample-data screen after its first commit: the spinner is shown while
\* the location effect runs
InitForm ==
    /\ variant \in SampleScreens
    /\ mounted = TRUE
    /\ region = DEFAULT_LOCATION
    /\ userLocation = [latitude |-> DEFAULT_LOCATION.latitude,
                       longitude |-> DEFAULT_LOCATION.longitude]
    /\ isLoading = TRUE
    /\ errorMsg = "null"
    /\ reports = SAMPLE_REPORTS_of(variant)
    /\ isLoadingReports = FALSE
    /\ modalVisible = FALSE
    /\ reportType = reportType_initial(variant)
    /\ reportDescription = ""
    /\ selectedReport = Null
    /\ markerPressed = FALSE
    /\ alert = "none"
    /\ fetchPc = "idle"
    /\ getLocPc = "awaitPermission"
    /\ locationTimeout = "undefined"
    /\ watchPc = "done"
    /\ locationSubscription = "undefined"
    /\ subActive = FALSE
    /\ submits = << >>
    /\ confirms = << >>
    /\ deleteDialog = Null
    /\ deletes = << >>
    /\ serverReports = << >>
    /\ now = 10
    /\ nSubmits = 0
    /\ nRefresh = 0
    /\ nConfirms = 0
    /\ nDeletes = 0
    /\ goTos = 0
    /\ nGoTo = 0
    /\ lateWrites = {}
    /\ NoAuth

\* the mount effect's getLocation ends: on every path it calls
\* setIsLoading(false); the region is the default one (permission denied,
\* timer, error) or the one of the fix
getLocation_sample(r) ==
    /\ getLocPc = "awaitPermission"
    /\ getLocPc' = "done"
    /\ isLoading' = FALSE
    /\ region' = r
    /\ UNCHANGED << variant, authVars, mounted, userLocation, errorMsg, reports,
                    isLoadingReports, formVars, selVars, alert, fetchPc,
                    locationTimeout, watchVars, pendingVars, envVars,
                    counters, lateWrites >>

\* the modal's type button: onPress={() => setReportType(...)}
setReportType_button ==
    /\ controlsShown
    /\ modalVisible
    /\ typeButton(variant) # ""
    /\ reportType # typeButton(variant)
    /\ reportType' = typeButton(variant)
    /\ UNCHANGED << variant, authVars, mounted, region, userLocation, isLoading,
                    errorMsg, reports, isLoadingReports, modalVisible,
                    reportDescription, selVars, alert, fetchPc, locVars,
                    watchVars, pendingVars, envVars, counters, lateWrites >>

\* the Submit button's disabled={!reportType || !reportDescription}
submit_disabled == reportType = "" \/ reportDescription = ""

\* the Submit button is pressed at time t: handleReportSubmit of a
\* sample-data screen, which has no await
handleReportSubmit_sample(t) ==
    /\ controlsShown
    /\ modalVisible
    /\ ~submit_disabled
    \* if (reportType && reportDescription)
    /\ reportType # "" /\ reportDescription # ""
    /\ nSubmits < MaxFormSubmits
    /\ nSubmits' = nSubmits + 1
    /\ now' = t
    /\ reports' = << [id |-> t, type |-> reportType,
                      latitude |-> region.latitude,
                      longitude |-> region.longitude,
                      description |-> reportDescription] >> \o reports
    /\ modalVisible' = FALSE
    /\ reportType' = ""
    /\ reportDescription' = ""
    /\ UNCHANGED << variant, authVars, mounted, region, userLocation, isLoading,
                    errorMsg, isLoadingReports, selVars, alert, fetchPc,
                    locVars, watchVars, pendingVars, serverReports,
                    nRefresh, nConfirms, nDeletes, nGoTo, lateWrites >>

NextForm ==
    \/ \E r \in {DEFAULT_LOCATION} \cup PanRegions : getLocation_sample(r)
    \/ \E v \in BOOLEAN : setModalVisible(v)
    \/ \E d \in Descriptions \cup {""} : setReportDescription(d)
    \/ setReportType_button
    \/ \E t \in now..(now + 1) : t <= MaxNow /\ handleReportSubmit_sample(t)

SpecForm == InitForm /\ [][NextForm]_vars

\* C26: on every sample-data screen, whenever the report modal is open and
\* the description is not empty, the Submit button is enabled or the report
\* type it waits for can be set with the modal's type button; this also
\* after a submission has reset the form.
C26_SubmitRepeatable ==
    (/\ variant \in SampleScreens /\ controlsShown /\ modalVisible
     /\ reportDescription # "")
       => (~submit_disabled \/ ENABLED setReportType_button)

\* C27: when the race of goToMyLocation is lost (the position call rejects,
\* or the 5000 ms timer rejects first), the handler leaves the map region
\* and the user-location marker as they are, sets the error message, ends
\* with the loading flag false, and the call is no longer pending.
C27_GoToFailureKeepsMap ==
    [][goToMyLocation_failed =>
          /\ UNCHANGED << region, userLocation >>
          /\ errorMsg' = "Could not update location. Using the current map view."
          /\ isLoading' = FALSE
          /\ goTos' = goTos - 1]_vars

C27_Witness ==
    /\ nGoTo = 1 /\ goTos = 0 /\ ~isLoading
    /\ errorMsg = "Could not update location. Using the current map view."
    /\ userLocation \in Fixes /\ region # DEFAULT_LOCATION

\* C28: isLoadingReports is true exactly while a fetchReports call is in
\* flight (at one of its two awaits), so it is false after every outcome of
\* a fetch; and the refresh button starts a fetch only when none is in
\* flight, so at most one fetchReports call is in flight at any time.
C28_OneFetchInFlight ==
    /\ [](isLoadingReports <=> fetchPc # "idle")
    /\ [][refreshReports => fetchPc = "idle"]_vars

C28_Witness ==
    /\ nRefresh = 1 /\ isLoadingReports /\ fetchPc = "awaitJson"
    /\ controlsShown

----------------------------------------------------------------------------
(* The login screen (LandingScreen) and the register screen               *)
(* (RegisterScreen).  `variant` is "login" or "register"; `alert` is the   *)
(* title of the last Alert.alert, or the text of the last alert().  A      *)
(* handler call that is at an await is an element of authCalls.            *)

MaxAuth == 1
MaxEmailLen == 5

AuthScreens == {"login", "register"}

\* what the text fields can hold
Names == {"", "Ada"}
Passwords == {"", "hunter2"}

\* an email is a sequence of characters: a letter, '@', '.', or a space
EmailChars == {"a", "@", ".", " "}

\* what the email field can hold after one more key press: a character
\* typed at the end, or the last character deleted
Typed(e) ==
    { Append(e, c) : c \in IF Len(e) < MaxEmailLen THEN EmailChars ELSE {} }
    \cup (IF e = << >> THEN {} ELSE { SubSeq(e, 1, Len(e) - 1) })

\* type UserRole, and the role a user object of the API can carry
\* ("undefined": the field is absent)
UserRoles == {"law enforcement", "community"}
ApiRoles == UserRoles \cup {"admin", "undefined"}

\* JSON.stringify(data.user) for `null` and for an object with a role
JSON_stringify(user) ==
    IF user = Null THEN "null"
    ELSE IF user[1].role = "undefined" THEN "{}"
    ELSE "{\"role\":\"" \o user[1].role \o "\"}"

\* what `await response.json()` of the login response can yield
LoginBodies ==
    { [status |-> "success", user |-> Some([role |-> r])] : r \in ApiRoles }
    \cup { [status |-> "success", user |-> Null],
           [status |-> "error", user |-> Null] }

\* the content-type header of the register response: absent, or a media
\* type followed by its parameters
ContentTypes ==
    { Null, Some(<< "text/html" >>), Some(<< "application/json" >>),
      Some(<< "application/json", "; charset=utf-8" >>) }

\* contentType.includes('application/json')
includes_json(contentType) ==
    \E k \in 1..Len(contentType[1]) : contentType[1][k] = "application/json"

\* the login or the register screen after its first render
InitAuth ==
    /\ variant \in AuthScreens
    /\ mounted = TRUE
    /\ region = DEFAULT_LOCATION
    /\ userLocation = [latitude |-> DEFAULT_LOCATION.latitude,
                       longitude |-> DEFAULT_LOCATION.longitude]
    /\ isLoading = FALSE
    /\ errorMsg = "null"
    /\ reports = << >>
    /\ isLoadingReports = FALSE
    /\ modalVisible = FALSE
    /\ reportType = ""
    /\ reportDescription = ""
    /\ selectedReport = Null
    /\ markerPressed = FALSE
    /\ alert = "none"
    /\ fetchPc = "idle"
    /\ getLocPc = "done"
    /\ locationTimeout = "undefined"
    /\ watchPc = "done"
    /\ locationSubscription = "undefined"
    /\ subActive = FALSE
    /\ submits = << >>
    /\ confirms = << >>
    /\ deleteDialog = Null
    /\ deletes = << >>
    /\ serverReports = << >>
    /\ now = 10
    /\ nSubmits = 0
    /\ nRefresh = 0
    /\ nConfirms = 0
    /\ nDeletes = 0
    /\ goTos = 0
    /\ nGoTo = 0
    /\ lateWrites = {}
    /\ name = ""
    /\ email = << >>
    /\ password = ""
    /\ role = "null"
    /\ authCalls = << >>
    /\ route = IF variant = "login" THEN "/" ELSE "/register"
    /\ storedUser = Null
    /\ nAuth = 0

\* the variables of the map screens
mapVars == << variant, mounted, region, userLocation, isLoading, errorMsg,
              reports, isLoadingReports, formVars, selVars, fetchPc,
              locVars, watchVars, pendingVars, envVars, counters,
              lateWrites >>

\* the form is on screen and no alert covers it
formShown == route \in {"/", "/register"} /\ alert = "none"

\* onChangeText={setName}
setName(n) ==
    /\ formShown /\ variant = "register"
    /\ name # n
    /\ name' = n
    /\ UNCHANGED << mapVars, alert, email, password, role, authCalls, route,
                    storedUser, nAuth >>

\* onChangeText={setEmail}
setEmail(e) ==
    /\ formShown
    /\ email # e
    /\ email' = e
    /\ UNCHANGED << mapVars, alert, name, password, role, authCalls, route,
                    storedUser, nAuth >>

\* onChangeText={setPassword}
setPassword(p) ==
    /\ formShown
    /\ password # p
    /\ password' = p
    /\ UNCHANGED << mapVars, alert, name, email, role, authCalls, route,
                    storedUser, nAuth >>

\* selectRole(selectedRole)
selectRole(selectedRole) ==
    /\ formShown /\ variant = "register"
    /\ role # selectedRole
    /\ role' = selectedRole
    /\ UNCHANGED << mapVars, alert, name, email, password, authCalls, route,
                    storedUser, nAuth >>

\* the handler call i has ended
Return(i) == Remove(authCalls, i)

\* a handler call that has run up to its first await; of the values it
\* has captured, `role` is the one it reads after the await
AuthCall(handler) ==
    [handler |-> handler, pc |-> "awaitFetch", role |-> role,
     response |-> Null, data |-> Null]

----------------------------------------------------------------------------
(* handleLogin *)

\* the login button is pressed: the handler runs up to `await fetch(...)`
handleLogin ==
    /\ formShown /\ variant = "login"
    /\ nAuth < MaxAuth
    /\ nAuth' = nAuth + 1
    /\ authCalls' = Append(authCalls, AuthCall("handleLogin"))
    /\ UNCHANGED << mapVars, alert, name, email, password, role, route,
                    storedUser >>

\* `await fetch(...)` settles: it rejects, or a response of any status
\* arrives (the handler does not read response.ok)
handleLogin_response(i, outcome) ==
    /\ i \in 1..Len(authCalls)
    /\ authCalls[i].handler = "handleLogin"
    /\ authCalls[i].pc = "awaitFetch"
    /\ IF outcome = "throw"
       THEN /\ alert' = "Login Error"
            /\ authCalls' = Return(i)
       ELSE /\ authCalls' = [authCalls EXCEPT ![i].pc = "awaitJson"]
            /\ UNCHANGED alert
    /\ UNCHANGED << mapVars, name, email, password, role, route, storedUser,
                    nAuth >>

\* `await response.json()` settles: it throws (data = Null) or yields a body
handleLogin_json(i, data) ==
    /\ i \in 1..Len(authCalls)
    /\ authCalls[i].handler = "handleLogin"
    /\ authCalls[i].pc = "awaitJson"
    /\ IF data = Null
       THEN /\ alert' = "Login Error"
            /\ authCalls' = Return(i)
       ELSE IF data[1].status = "success"
       THEN \* runs up to `await AsyncStorage.setItem(...)`
            /\ authCalls' = [authCalls EXCEPT ![i].pc = "awaitSetItem",
                                              ![i].data = data]
            /\ UNCHANGED alert
       ELSE /\ alert' = "Login Failed"
            /\ authCalls' = Return(i)
    /\ UNCHANGED << mapVars, name, email, password, role, route, storedUser,
                    nAuth >>

\* the route for data.user.role
loginRoute(userRole) ==
    IF userRole = "law enforcement" THEN "/lawenforce"
    ELSE IF userRole = "community" THEN "/community"
    ELSE "/community"

\* `await AsyncStorage.setItem('user', JSON.stringify(data.user))` settles:
\* it rejects, or the item is stored and the handler goes on to read
\* data.user.role, which throws a TypeError when data.user is null
handleLogin_setItem(i, outcome) ==
    /\ i \in 1..Len(authCalls)
    /\ authCalls[i].handler = "handleLogin"
    /\ authCalls[i].pc = "awaitSetItem"
    /\ authCalls' = Return(i)
    /\ LET user == authCalls[i].data[1].user IN
       IF outcome = "reject"
       THEN /\ alert' = "Login Error"
            /\ UNCHANGED << storedUser, route >>
       ELSE /\ storedUser' = Some(JSON_stringify(user))
            /\ IF user = Null
               THEN /\ alert' = "Login Error"
                    /\ UNCHANGED route
               ELSE /\ route' = loginRoute(user[1].role)
                    /\ UNCHANGED alert
    /\ UNCHANGED << mapVars, name, email, password, role, nAuth >>

----------------------------------------------------------------------------
(* handleRegister *)

\* /^[^\s@]+@[^\s@]+\.[^\s@]+$/.test(email)
isValidEmail(e) ==
    \E i, j \in 1..Len(e) :
       /\ e[i] = "@" /\ e[j] = "."
       /\ 1 < i /\ i + 1 < j /\ j < Len(e)
       /\ \A k \in 1..Len(e) : k # i => e[k] \notin {" ", "@"}

\* the register button is pressed: the handler validates the form and runs
\* up to `await fetch(...)`
handleRegister ==
    /\ formShown /\ variant = "register"
    /\ nAuth < MaxAuth
    /\ nAuth' = nAuth + 1
    /\ IF name = "" \/ email = << >> \/ password = "" \/ role = "null"
       THEN /\ alert' = "Please fill in all fields and select a role"
            /\ UNCHANGED authCalls
       ELSE IF ~isValidEmail(email)
       THEN /\ alert' = "Please enter a valid email address"
            /\ UNCHANGED authCalls
       ELSE /\ authCalls' = Append(authCalls, AuthCall("handleRegister"))
            /\ UNCHANGED alert
    /\ UNCHANGED << mapVars, name, email, password, role, route,
                    storedUser >>

\* how `await fetch(...)` of the register request can settle
RegisterResponses ==
    { [thrown |-> TRUE, ok |-> FALSE, contentType |-> Null] }
    \cup { [thrown |-> FALSE, ok |-> o, contentType |-> c] :
              o \in BOOLEAN, c \in ContentTypes }

\* `await fetch(...)` settles; for a response that is not ok the handler
\* awaits response.text() and throws; it throws for a content type that is
\* absent or does not include 'application/json'
handleRegister_response(i, response) ==
    /\ i \in 1..Len(authCalls)
    /\ authCalls[i].handler = "handleRegister"
    /\ authCalls[i].pc = "awaitFetch"
    /\ IF \/ response.thrown
          \/ ~response.ok
          \/ response.contentType = Null
          \/ ~includes_json(response.contentType)
       THEN /\ alert' = "Registration failed"
            /\ authCalls' = Return(i)
       ELSE /\ authCalls' = [authCalls EXCEPT ![i].pc = "awaitJson",
                                              ![i].response = Some(response)]
            /\ UNCHANGED alert
    /\ UNCHANGED << mapVars, name, email, password, role, route, storedUser,
                    nAuth >>

\* registerRoute that sends every role to the community view
registerRoute_community(r) == "/community"

\* the route for the role of the form
registerRoute(r) ==
    IF r = "law enforcement" THEN "/lawenforce"
    ELSE IF r = "community" THEN "/community"
    ELSE "/community"

\* `await response.json()` settles: it throws, or the body is parsed
handleRegister_json(i, parsed) ==
    /\ i \in 1..Len(authCalls)
    /\ authCalls[i].handler = "handleRegister"
    /\ authCalls[i].pc = "awaitJson"
    /\ authCalls' = Return(i)
    /\ IF parsed
       THEN /\ alert' = "Registration successful as " \o authCalls[i].role
            /\ route' = registerRoute(authCalls[i].role)
       ELSE /\ alert' = "Registration failed"
            /\ UNCHANGED route
    /\ UNCHANGED << mapVars, name, email, password, role, storedUser, nAuth >>

----------------------------------------------------------------------------
(* The two screens with their users and the API *)

TypingActions ==
    \/ \E n \in Names : setName(n)
    \/ \E e \in Typed(email) : setEmail(e)
    \/ \E p \in Passwords : setPassword(p)
    \/ \E r \in UserRoles : selectRole(r)
    \/ alert_dismiss

LoginActions ==
    \/ handleLogin
    \/ \E i \in 1..MaxAuth, o \in {"throw", "response"} :
          handleLogin_response(i, o)
    \/ \E i \in 1..MaxAuth, b \in LoginBodies :
          handleLogin_json(i, Some(b))
    \/ \E i \in 1..MaxAuth : handleLogin_json(i, Null)
    \/ \E i \in 1..MaxAuth, o \in {"resolve", "reject"} :
          handleLogin_setItem(i, o)

RegisterActions ==
    \/ handleRegister
    \/ \E i \in 1..MaxAuth, r \in RegisterResponses :
          handleRegister_response(i, r)
    \/ \E i \in 1..MaxAuth, p \in BOOLEAN : handleRegister_json(i, p)

NextAuth == TypingActions \/ LoginActions \/ RegisterActions

SpecAuth == InitAuth /\ [][NextAuth]_vars

\* C29: handleLogin stores the user and navigates only when the response's
\* status is 'success', to /lawenforce iff the user's role is 'law
\* enforcement' and to /community otherwise; a call that ends without
\* navigating (a non-success status, a thrown error) raises an alert and
\* has stored nothing.
C29_LoginRouting ==
    [][variant = "login" =>
         /\ (storedUser' # storedUser \/ route' # route) =>
               \E i \in 1..Len(authCalls) :
                  /\ handleLogin_setItem(i, "resolve")
                  /\ authCalls[i].data[1].status = "success"
                  /\ route' # route =>
                       /\ storedUser' # Null
                       /\ (route' = "/lawenforce") <=>
                             (authCalls[i].data[1].user[1].role
                                 = "law enforcement")
                       /\ route' \in {"/lawenforce", "/community"}
         /\ (Len(authCalls') < Len(authCalls) /\ route' = route) =>
               /\ alert' \in {"Login Error", "Login Failed"}
               /\ storedUser' = storedUser]_vars

\* C30: handleRegister sends no request unless name, email, password and
\* role are set and the email matches the pattern; the screen navigates only
\* when the JSON body of a 2xx response with a JSON content type has been
\* parsed, to /lawenforce iff the role of the submitted form is 'law
\* enforcement' and to /community otherwise; every other end of the call
\* raises a failure alert and does not navigate.
C30_RegisterGating ==
    [][variant = "register" =>
         /\ handleRegister =>
               /\ route' = route
               /\ IF authCalls' # authCalls
                  THEN /\ name # "" /\ password # "" /\ role \in UserRoles
                       /\ isValidEmail(email)
                  ELSE alert' \in
                          {"Please fill in all fields and select a role",
                           "Please enter a valid email address"}
         /\ \A i \in 1..Len(authCalls), r \in RegisterResponses :
               handleRegister_response(i, r) =>
                  /\ route' = route
                  /\ Len(authCalls') < Len(authCalls) =>
                        alert' = "Registration failed"
         /\ \A i \in 1..Len(authCalls), parsed \in BOOLEAN :
               handleRegister_json(i, parsed) =>
                  /\ authCalls[i].response[1].ok
                  /\ Head(authCalls[i].response[1].contentType[1])
                        = "application/json"
                  /\ IF parsed
                     THEN route' = IF authCalls[i].role = "law enforcement"
                                   THEN "/lawenforce" ELSE "/community"
                     ELSE route' = route /\ alert' = "Registration failed"
         /\ route' # route =>
               \E i \in 1..Len(authCalls) : handleRegister_json(i, TRUE)]_vars

C30_Witness ==
    /\ variant = "register" /\ route = "/lawenforce"
    /\ alert = "Registration successful as law enforcement"
    /\ authCalls = << >> /\ role = "community"
====
